---- MODULE Spec2Model ----
(***************************************************************************)
(* A model of the PHIVOLCS earthquake API (src/src/index.ts): the scrape,  *)
(* parse and cache pipeline of fetchEarthquakes, the in-memory cache slot  *)
(* earthquakeCache, and the route handlers that read it.                   *)
(*                                                                         *)
(* Strings whose content the code inspects (trim, split, parseFloat) are   *)
(* sequences of one-character strings.  Numbers that parseFloat produces   *)
(* are kept in tenths (fixed point); every numeric text of the model has   *)
(* at most one fractional digit, so the value is exact.                    *)
(* JavaScript arrays are objects on a heap (arrays), named by reference,   *)
(* so that aliasing between the cache and a caller's result is visible.    *)
(***************************************************************************)
EXTENDS Integers, Sequences, FiniteSets, TLC

VARIABLES
    earthquakeCache,  \* index.ts:42  null or [data |-> array ref, timestamp |-> ms]
    arrays,           \* the heap of EarthquakeData[] arrays, indexed by reference
    now,              \* Date.now()
    pc,               \* per call: where the request is
    forceRefresh,     \* per call: the argument of fetchEarthquakes, while it is suspended
    resp,             \* per call: what axios.get delivered, until the request ends
    result,           \* per call: what fetchEarthquakes returned or threw, until then
    reply,            \* the response sent last: its status and route
    fetchCount,       \* number of axios.get requests issued so far
    lastInstall,      \* history: what the last successful run built and when
    answer,           \* the body of the response sent last, where the run keeps it
    issued            \* history, per call in flight: the order of its request, where
                      \* the run keeps it

vars == <<earthquakeCache, arrays, now, pc, forceRefresh, resp, result,
          reply, fetchCount, lastInstall, answer, issued>>

----------------------------------------------------------------------------
(* Bounds of the model *)

NumCalls == 2
MaxTicks == 2
MaxRows == 2
MaxTables == 2

(* Program constants *)

CACHE_TTL_MS == 5 * 60 * 1000
MAX_TOP_COUNT == 50

----------------------------------------------------------------------------
(* Strings *)

IsSpace(ch) == ch \in {" ", "\n", "\t"}

RECURSIVE TrimStart(_)
TrimStart(s) ==
    IF s = <<>> THEN <<>>
    ELSE IF IsSpace(Head(s)) THEN TrimStart(Tail(s)) ELSE s

RECURSIVE TrimEnd(_)
TrimEnd(s) ==
    IF s = <<>> THEN <<>>
    ELSE IF IsSpace(s[Len(s)]) THEN TrimEnd(SubSeq(s, 1, Len(s) - 1)) ELSE s

\* String.prototype.trim
Trim(s) == TrimEnd(TrimStart(s))

Separator == <<" ", "-", " ">>

StartsWith(s, p) == Len(s) >= Len(p) /\ SubSeq(s, 1, Len(p)) = p

\* String.prototype.split(' - '): the pieces between the occurrences of the
\* separator, scanned left to right; a text without it is one piece.
RECURSIVE SplitFrom(_, _)
SplitFrom(s, piece) ==
    IF s = <<>> THEN <<piece>>
    ELSE IF StartsWith(s, Separator)
         THEN <<piece>> \o SplitFrom(SubSeq(s, Len(Separator) + 1, Len(s)), <<>>)
         ELSE SplitFrom(Tail(s), Append(piece, Head(s)))

Split(s) == SplitFrom(s, <<>>)

\* String.prototype.replace(/\s+/g, ' ')
RECURSIVE CollapseSpaces(_)
CollapseSpaces(s) ==
    IF s = <<>> THEN <<>>
    ELSE IF IsSpace(Head(s))
         THEN <<" ">> \o CollapseSpaces(TrimStart(s))
         ELSE <<Head(s)>> \o CollapseSpaces(Tail(s))

Digits == <<"0", "1", "2", "3", "4", "5", "6", "7", "8", "9">>

IsDigit(ch) == \E i \in 1..10 : Digits[i] = ch

DigitVal(ch) == (CHOOSE i \in 1..10 : Digits[i] = ch) - 1

RECURSIVE DigitPrefix(_)
DigitPrefix(s) ==
    IF s = <<>> \/ ~IsDigit(Head(s)) THEN <<>>
    ELSE <<Head(s)>> \o DigitPrefix(Tail(s))

RECURSIVE DecimalValue(_, _)
DecimalValue(ds, acc) ==
    IF ds = <<>> THEN acc ELSE DecimalValue(Tail(ds), 10 * acc + DigitVal(Head(ds)))

\* JavaScript values of the kinds the code compares: undefined, NaN, a number.
Undefined == [kind |-> "undefined"]
NaN == [kind |-> "NaN"]
Number(v) == [kind |-> "number", value |-> v]

\* The global parseFloat: leading white space, an optional sign, digits, an
\* optional fraction; NaN when no digit was read.  The value is in tenths.
ParseFloat(str) ==
    LET s0 == TrimStart(str)
        neg == s0 # <<>> /\ Head(s0) = "-"
        s1 == IF s0 # <<>> /\ Head(s0) \in {"-", "+"} THEN Tail(s0) ELSE s0
        ip == DigitPrefix(s1)
        s2 == SubSeq(s1, Len(ip) + 1, Len(s1))
        fp == IF s2 # <<>> /\ Head(s2) = "." THEN DigitPrefix(Tail(s2)) ELSE <<>>
        tenths == IF fp = <<>> THEN 0 ELSE DigitVal(Head(fp))
        abs == 10 * DecimalValue(ip, 0) + tenths
    IN  IF ip = <<>> /\ fp = <<>> THEN NaN
        ELSE Number(IF neg THEN 0 - abs ELSE abs)

parseMagnitude(mag) ==
    LET parsed == ParseFloat(mag)
    IN  IF parsed.kind = "NaN" THEN 0 ELSE parsed.value

----------------------------------------------------------------------------
(* The page, as cheerio sees it: the tables that match table.MsoNormalTable *)
(* in document order, each a sequence of tr rows, each row the sequence of  *)
(* its td cells.  A cell has its text and whether that text sits in an <a>. *)

Cell(text) == [text |-> text, hasLink |-> FALSE]
LinkCell(text) == [text |-> text, hasLink |-> TRUE]

\* const [date = '', time = ''] = $dateLink.length ? text.trim().split(' - ') : []
DateTimeParts(cell) ==
    IF cell.hasLink THEN Split(Trim(cell.text)) ELSE <<>>

Part(parts, i) == IF Len(parts) >= i THEN parts[i] ELSE <<>>

MakeEarthquake(cols) ==
    LET parts == DateTimeParts(cols[1])
        magnitudeStr == Trim(cols[5].text)
    IN  [date |-> Trim(Part(parts, 1)),
         time |-> Trim(Part(parts, 2)),
         latitude |-> Trim(cols[2].text),
         longitude |-> Trim(cols[3].text),
         depth |-> Trim(cols[4].text),
         magnitude |-> magnitudeStr,
         location |-> Trim(CollapseSpaces(cols[6].text)),
         magnitudeNumeric |-> parseMagnitude(magnitudeStr)]

\* A validation that forgets the time.
AllRequiredButTime(eq) ==
    eq.date # <<>> /\ eq.magnitude # <<>> /\ eq.location # <<>>

\* if (earthquake.date && earthquake.time && earthquake.magnitude && earthquake.location)
AllRequired(eq) ==
    eq.date # <<>> /\ eq.time # <<>> /\ eq.magnitude # <<>> /\ eq.location # <<>>

EnoughCols(cols) == Len(cols) >= 6

\* The callback of $table.find('tr').each: what one row adds to earthquakes.
RowStep(earthquakes, cols) ==
    IF ~EnoughCols(cols) THEN earthquakes
    ELSE LET earthquake == MakeEarthquake(cols)
         IN  IF AllRequired(earthquake) THEN Append(earthquakes, earthquake)
             ELSE earthquakes

RECURSIVE RowLoop(_, _)
RowLoop(earthquakes, rows) ==
    IF rows = <<>> THEN earthquakes
    ELSE RowLoop(RowStep(earthquakes, Head(rows)), Tail(rows))

RECURSIVE Flatten(_)
Flatten(seqs) == IF seqs = <<>> THEN <<>> ELSE Head(seqs) \o Flatten(Tail(seqs))

\* $('table.MsoNormalTable').find('tr'): the rows of every matching table,
\* in document order.
FindRows(tables) == Flatten(tables)

TableNotFound == "Earthquake data table not found on page"
NoValidData == "No valid earthquake data found"

\* The extraction without its empty check (lines 118-120 left out).
ExtractAllowsEmpty(tables) ==
    IF Len(tables) = 0 THEN [ok |-> FALSE, error |-> TableNotFound]
    ELSE [ok |-> TRUE, data |-> RowLoop(<<>>, FindRows(tables))]

\* Lines 79-120: cheerio.load up to the empty check.
Extract(tables) ==
    IF Len(tables) = 0 THEN [ok |-> FALSE, error |-> TableNotFound]
    ELSE LET earthquakes == RowLoop(<<>>, FindRows(tables))
         IN  IF Len(earthquakes) = 0 THEN [ok |-> FALSE, error |-> NoValidData]
             ELSE [ok |-> TRUE, data |-> earthquakes]

----------------------------------------------------------------------------
(* Upstream pages the model draws from *)

Lat == <<"1", "4", "N">>
Lon == <<"1", "2", "1", "E">>
Depth10 == <<"0", "1", "0">>
Depth2 == <<"0", "0", "2">>

Mag45 == <<"4", ".", "5">>
Mag58 == <<" ", "5", ".", "8", "\n">>
Mag21 == <<"2", ".", "1">>
MagText == <<"x">>
Blank == <<" ", "\n">>

Row(dateCell, depth, mag, loc) ==
    <<dateCell, Cell(Lat), Cell(Lon), Cell(depth), Cell(mag), Cell(loc)>>

\* Rows that qualify.
RowA == Row(LinkCell(<<" ", "d", " ", "-", " ", "t", " ">>), Depth10, Mag45,
            <<"a", " ", "\n", "B">>)
RowB == Row(LinkCell(<<"e", " ", "-", " ", "u">>), Depth2, Mag58, <<"b">>)
RowC == Row(LinkCell(<<"f", " ", " ", "-", " ", " ", "v", " ", "-", " ", "w">>),
            Depth10, Mag21, <<" ", "c">>)
RowText == Row(LinkCell(<<"g", " ", "-", " ", "x">>), Depth2, MagText, <<"a">>)
RowSeven == Append(Row(LinkCell(<<"h", " ", "-", " ", "y">>), Depth2, Mag45, <<"b">>),
                   Cell(<<"z">>))
\* Rows that do not.
RowShort == SubSeq(RowA, 1, 5)
RowHeader == <<>>
RowNoLink == Row(Cell(<<"d", " ", "-", " ", "t">>), Depth10, Mag45, <<"a">>)
RowNoTime == Row(LinkCell(<<"d", " ", "-">>), Depth10, Mag45, <<"a">>)
RowEmptyTime == Row(LinkCell(<<"d", " ", "-", " ", " ", "-", " ", "t">>),
                    Depth10, Mag45, <<"a">>)
RowNoMag == Row(LinkCell(<<"d", " ", "-", " ", "t">>), Depth10, Blank, <<"a">>)
RowNoLoc == Row(LinkCell(<<"d", " ", "-", " ", "t">>), Depth10, Mag45, Blank)

RowKinds == {RowA, RowB, RowC, RowText, RowSeven, RowShort, RowNoLink, RowNoTime,
             RowEmptyTime, RowNoMag, RowNoLoc}

RowSeqs(maxRows) == UNION {[1..k -> RowKinds] : k \in 0..maxRows}

\* The ways to cut a row sequence into m tables (a table may be empty).
CutsOf(rs, m) ==
    {c \in [0..m -> 0..Len(rs)] :
        /\ c[0] = 0
        /\ c[m] = Len(rs)
        /\ \A i \in 1..m : c[i - 1] <= c[i]}

TablesAt(rs, m, c) == [i \in 1..m |-> SubSeq(rs, c[i - 1] + 1, c[i])]

NoHtml == [kind |-> "none"]
Html(tables) == [kind |-> "html", tables |-> tables]
NetworkError == [kind |-> "network error"]

\* The pages of maxTables matching tables at most over maxRows rows at most.
Pages(maxRows, maxTables) ==
    {Html(<<>>)} \cup
    UNION {UNION {{Html(TablesAt(rs, m, c)) : c \in CutsOf(rs, m)}
                     : m \in 1..maxTables} : rs \in RowSeqs(maxRows)}

\* What axios.get may deliver in the runs of the cache: a failure (timeout,
\* connection, TLS, status), or one of a few pages.
PageNoTable == Html(<<>>)
PageNoValid == Html(<<<<RowHeader, RowShort, RowNoMag>>>>)
PageOne == Html(<<<<RowHeader, RowText, RowNoLoc, RowA>>>>)
PageTwo == Html(<<<<RowB, RowShort>>, <<RowC, RowSeven>>>>)

Responses == {NetworkError, PageNoTable, PageNoValid, PageOne, PageTwo}

----------------------------------------------------------------------------
(* The cache and fetchEarthquakes *)

Calls == 1..NumCalls

NoCache == [present |-> FALSE]

Returned(ref) == [kind |-> "return", data |-> ref]
Thrown(message) == [kind |-> "throw", error |-> message]
NoResult == [kind |-> "none"]

TimeoutMessage == "timeout of 15000ms exceeded"

\* Lines 57-60.
isCacheValid(cache, t) ==
    IF ~cache.present THEN FALSE
    ELSE t - cache.timestamp < CACHE_TTL_MS

\* Line 64 with the flag inverted.
ServesCachedWhenForced(force, cache, t) == force /\ isCacheValid(cache, t) /\ cache.present

\* Line 64.
ServesCached(force, cache, t) == ~force /\ isCacheValid(cache, t) /\ cache.present

\* A cache update that swaps the data in and keeps the entry's timestamp.
CacheUpdateDataOnly(cache, ref, t) ==
    IF cache.present THEN [cache EXCEPT !.data = ref]
    ELSE [present |-> TRUE, data |-> ref, timestamp |-> t]

\* Lines 123-126.
CacheUpdate(cache, ref, t) == [present |-> TRUE, data |-> ref, timestamp |-> t]

\* A catch clause that always rethrows.
OnErrorRethrows(cache, error, t) == Thrown(error)

\* A catch clause that falls back on the cache only while it is within its TTL.
OnErrorFreshOnly(cache, error, t) ==
    IF isCacheValid(cache, t) THEN Returned(cache.data) ELSE Thrown(error)

\* A catch clause that replaces the error it caught by one of its own.
OnErrorGeneric(cache, error, t) ==
    IF cache.present THEN Returned(cache.data) ELSE Thrown("Unknown error")

\* Lines 129-136: the catch clause.
OnError(cache, error, t) ==
    IF cache.present THEN Returned(cache.data) ELSE Thrown(error)

\* A catch clause that stamps the entry it falls back on as fresh.
CacheRenewedOnError(cache, t) ==
    IF cache.present THEN [cache EXCEPT !.timestamp = t] ELSE cache

\* Lines 129-136: the catch clause writes nothing to the cache.
CacheAfterError(cache, t) == cache

\* What the try block throws for a response, if it throws.
Outcome(r) ==
    IF r.kind = "html" THEN Extract(r.tables)
    ELSE [ok |-> FALSE, error |-> TimeoutMessage]

TickMs == CACHE_TTL_MS \div 2

NoReply == [status |-> 0]

NoInstall == [present |-> FALSE]

NoAnswer == [op |-> "none"]

NoIssue == [seq |-> 0, settled |-> 0]

Init ==
    /\ earthquakeCache = NoCache
    /\ arrays = <<>>
    /\ now = 0
    /\ pc = [c \in Calls |-> "idle"]
    /\ forceRefresh = [c \in Calls |-> FALSE]
    /\ resp = [c \in Calls |-> NoHtml]
    /\ result = [c \in Calls |-> NoResult]
    /\ reply = NoReply
    /\ fetchCount = 0
    /\ lastInstall = NoInstall
    /\ answer = NoAnswer
    /\ issued = [c \in Calls |-> NoIssue]

\* A request enters fetchEarthquakes (lines 62-77): it is answered from the
\* cache, or axios.get is issued and the call is suspended at the await.  The
\* runs of the refreshes keep the order of the requests as well.
Start(c, force) ==
    /\ pc[c] = "idle"
    /\ forceRefresh' = [forceRefresh EXCEPT ![c] = force]
    /\ IF ServesCached(force, earthquakeCache, now)
       THEN /\ result' = [result EXCEPT ![c] = Returned(earthquakeCache.data)]
            /\ pc' = [pc EXCEPT ![c] = "returned"]
            /\ UNCHANGED fetchCount
       ELSE /\ pc' = [pc EXCEPT ![c] = "awaiting"]
            /\ fetchCount' = fetchCount + 1
            /\ UNCHANGED result
    /\ UNCHANGED <<earthquakeCache, arrays, now, resp, reply, lastInstall, answer>>

\* A catch clause that starts the request again instead of ending the call.
AfterAwaitRetries(o) == IF o.ok THEN "returned" ELSE "awaiting"

\* Where a call is once its axios.get has settled (lines 79-136): the try block
\* returns, or the catch clause returns or throws; nothing awaits again.
AfterAwait(o) == "returned"

\* axios.get settles and the rest of fetchEarthquakes runs to its return or
\* throw without suspending (lines 79-136).
Complete(c, r) ==
    /\ pc[c] = "awaiting"
    /\ resp' = [resp EXCEPT ![c] = r]
    /\ forceRefresh' = [forceRefresh EXCEPT ![c] = FALSE]
    /\ pc' = [pc EXCEPT ![c] = AfterAwait(Outcome(r))]
    /\ LET o == Outcome(r)
           ref == Len(arrays) + 1
       IN  IF o.ok
           THEN /\ arrays' = Append(arrays, o.data)
                /\ earthquakeCache' = CacheUpdate(earthquakeCache, ref, now)
                /\ lastInstall' = [present |-> TRUE, data |-> ref, timestamp |-> now,
                                    records |-> o.data, issued |-> issued[c].seq]
                /\ result' = [result EXCEPT ![c] = Returned(ref)]
           ELSE /\ result' = [result EXCEPT ![c] = OnError(earthquakeCache, o.error, now)]
                /\ earthquakeCache' = CacheAfterError(earthquakeCache, now)
                /\ UNCHANGED <<arrays, lastInstall>>
    /\ issued' = [issued EXCEPT ![c] = NoIssue]
    /\ UNCHANGED <<now, reply, fetchCount, answer>>

\* Time passes.
Tick ==
    /\ now < MaxTicks * TickMs
    /\ now' = now + TickMs
    /\ UNCHANGED <<earthquakeCache, arrays, pc, forceRefresh, resp, result,
                   reply, fetchCount, lastInstall, answer, issued>>

----------------------------------------------------------------------------
(* The query functions and the route handlers *)

\* mag >= minMag, mag <= maxMag: a comparison with NaN or undefined is false.
Geq(mag, bound) == bound.kind = "number" /\ mag >= bound.value
Leq(mag, bound) == bound.kind = "number" /\ mag <= bound.value

\* !maxMag
Falsy(v) == v.kind \in {"undefined", "NaN"} \/ (v.kind = "number" /\ v.value = 0)

\* Lines 139-144.
filterByMagnitude(earthquakes, minMag, maxMag) ==
    LET Keep(eq) == Geq(eq.magnitudeNumeric, minMag)
                    /\ (Falsy(maxMag) \/ Leq(eq.magnitudeNumeric, maxMag))
    IN  SelectSeq(earthquakes, Keep)

Lower(ch) ==
    CASE ch = "A" -> "a"
      [] ch = "B" -> "b"
      [] ch = "C" -> "c"
      [] OTHER -> ch

toLowerCase(s) == [i \in 1..Len(s) |-> Lower(s[i])]

includes(s, sub) ==
    \E i \in 1..(Len(s) + 1) :
        i + Len(sub) - 1 <= Len(s) /\ SubSeq(s, i, i + Len(sub) - 1) = sub

\* Lines 146-151.
filterByLocation(earthquakes, location) ==
    LET searchTerm == toLowerCase(location)
        Keep(eq) == includes(toLowerCase(eq.location), searchTerm)
    IN  SelectSeq(earthquakes, Keep)

\* An insertion that puts an element in front of those equal to it.
RECURSIVE InsertDescTiesFirst(_, _)
InsertDescTiesFirst(sorted, eq) ==
    IF sorted = <<>> THEN <<eq>>
    ELSE IF Head(sorted).magnitudeNumeric > eq.magnitudeNumeric
         THEN <<Head(sorted)>> \o InsertDescTiesFirst(Tail(sorted), eq)
         ELSE <<eq>> \o sorted

\* Array.prototype.sort with (a, b) => b.magnitudeNumeric - a.magnitudeNumeric:
\* the sort is stable, so an element goes behind those that are not smaller.
RECURSIVE InsertDesc(_, _)
InsertDesc(sorted, eq) ==
    IF sorted = <<>> THEN <<eq>>
    ELSE IF Head(sorted).magnitudeNumeric >= eq.magnitudeNumeric
         THEN <<Head(sorted)>> \o InsertDesc(Tail(sorted), eq)
         ELSE <<eq>> \o sorted

RECURSIVE SortDesc(_)
SortDesc(seq) ==
    IF seq = <<>> THEN <<>>
    ELSE InsertDesc(SortDesc(SubSeq(seq, 1, Len(seq) - 1)), seq[Len(seq)])

\* Array.prototype.slice(0, count)
Slice(seq, count) == SubSeq(seq, 1, IF count < Len(seq) THEN count ELSE Len(seq))

\* earthquakes.sort(...) without the copy: the array on the heap is reordered.
SortedInPlace(heap, ref) ==
    [heap |-> [heap EXCEPT ![ref] = SortDesc(heap[ref])], sorted |-> SortDesc(heap[ref])]

\* Line 257-258: [...earthquakes].sort(...) sorts a fresh copy; the array the
\* reference names stays as it is on the heap.
SortedCopy(heap, ref) == [heap |-> heap, sorted |-> SortDesc(heap[ref])]

\* Lines 256-259.
topEarthquakes(heap, ref, count) == Slice(SortedCopy(heap, ref).sorted, count)

\* Line 301.
recentEarthquakes(earthquakes, count) == Slice(earthquakes, count)

\* A query parameter: absent, or its text.  Lines 329-330:
\* val => val ? parseFloat(val) : undefined
Absent == [given |-> FALSE]
Given(text) == [given |-> TRUE, text |-> text]

QueryNumber(param) ==
    IF param.given /\ param.text # <<>> THEN ParseFloat(param.text) ELSE Undefined

\* Lines 338-346.
filtered(earthquakes, min_magnitude, max_magnitude, location) ==
    LET byMag == IF min_magnitude.kind # "undefined"
                 THEN filterByMagnitude(earthquakes, min_magnitude, max_magnitude)
                 ELSE earthquakes
    IN  IF location.given /\ location.text # <<>>
        THEN filterByLocation(byMag, location.text)
        ELSE byMag

RECURSIVE Sum(_)
Sum(ns) == IF ns = <<>> THEN 0 ELSE Head(ns) + Sum(Tail(ns))

Max(ns) == CHOOSE n \in {ns[i] : i \in 1..Len(ns)} : \A i \in 1..Len(ns) : ns[i] <= n
Min(ns) == CHOOSE n \in {ns[i] : i \in 1..Len(ns)} : \A i \in 1..Len(ns) : n <= ns[i]

\* A reduce that lets a later record of equal magnitude win.
RECURSIVE StrongestLastOnTies(_, _)
StrongestLastOnTies(prev, rest) ==
    IF rest = <<>> THEN prev
    ELSE StrongestLastOnTies(IF Head(rest).magnitudeNumeric >= prev.magnitudeNumeric
                             THEN Head(rest) ELSE prev, Tail(rest))

\* earthquakes.reduce((prev, curr) => curr.magnitudeNumeric > prev.magnitudeNumeric
\*                                     ? curr : prev)
RECURSIVE Strongest(_, _)
Strongest(prev, rest) ==
    IF rest = <<>> THEN prev
    ELSE Strongest(IF Head(rest).magnitudeNumeric > prev.magnitudeNumeric
                   THEN Head(rest) ELSE prev, Tail(rest))

\* sum / length, kept as the exact fraction
Average(ns) == [sum |-> Sum(ns), over |-> Len(ns)]

Summary(ns) == [max |-> Max(ns), min |-> Min(ns), average |-> Average(ns)]

\* Lines 377-396, for a non-empty array.
computeStats(earthquakes) ==
    LET magnitudes == [i \in 1..Len(earthquakes) |-> earthquakes[i].magnitudeNumeric]
        depths == [i \in 1..Len(earthquakes) |-> parseMagnitude(earthquakes[i].depth)]
    IN  [total_count |-> Len(earthquakes),
         magnitude |-> Summary(magnitudes),
         depth |-> Summary(depths),
         most_recent |-> earthquakes[1],
         strongest |-> Strongest(earthquakes[1], Tail(earthquakes))]

\* What reduce without an initial value throws on an empty array (line 394).
EmptyReduce == "Reduce of empty array with no initial value"

\* Lines 377-396 for any array: the stats object, or what building it throws.
stats(earthquakes) ==
    IF earthquakes = <<>> THEN Thrown(EmptyReduce)
    ELSE Returned(computeStats(earthquakes))

MaxCount == 2

Requests ==
    {[route |-> "health"], [route |-> "list"], [route |-> "stats"]}
    \cup {[route |-> r, count |-> n] : r \in {"top", "recent"},
                                        n \in {k \in 1..MaxCount : k > 0 /\ k <= MAX_TOP_COUNT}}
    \cup {[route |-> "filter", min_magnitude |-> Given(Mag45), max_magnitude |-> Absent,
           location |-> Absent],
          [route |-> "filter", min_magnitude |-> Absent, max_magnitude |-> Absent,
           location |-> Given(<<"B">>)]}

Ok(req, data) == [status |-> 200, request |-> req, data |-> data]
Failed(req, status, message) == [status |-> status, request |-> req, message |-> message]

\* What is kept of a response once it is sent: its status and its route.
Sent(body) == [status |-> body.status, route |-> body.request.route]

\* The body of a route handler after fetchEarthquakes returned the array ref.
Respond(req, heap, ref, cache, t) ==
    LET earthquakes == heap[ref]
    IN  CASE req.route = "health" ->
               Ok(req, [cache_valid |-> isCacheValid(cache, t), data_count |-> Len(earthquakes)])
          [] req.route = "list" -> Ok(req, earthquakes)
          [] req.route = "top" -> Ok(req, topEarthquakes(heap, ref, req.count))
          [] req.route = "recent" -> Ok(req, recentEarthquakes(earthquakes, req.count))
          [] req.route = "filter" ->
               Ok(req, filtered(earthquakes, QueryNumber(req.min_magnitude),
                           QueryNumber(req.max_magnitude), req.location))
          [] req.route = "stats" ->
               IF stats(earthquakes).kind = "throw"
               THEN Failed(req, 500, stats(earthquakes).error)
               ELSE Ok(req, stats(earthquakes).data)

\* The heap after the handler ran.
HeapAfter(req, heap, ref) ==
    IF req.route = "top" THEN SortedCopy(heap, ref).heap ELSE heap

\* What the handler of call c sends: the catch clause's body when
\* fetchEarthquakes threw, the route's own otherwise.
Body(c, req) ==
    IF result[c].kind = "throw"
    THEN Failed(req, IF req.route = "health" THEN 503 ELSE 500, result[c].error)
    ELSE Respond(req, arrays, result[c].data, earthquakeCache, now)

\* The route handler resumes from await fetchEarthquakes() and sends its response
\* (lines 191-414).  The route is a property of the request; nothing reads it
\* before this step.  The runs of the cache keep the status and the route of
\* the response; the runs of the queries keep its body as well.
Handle(c, req) ==
    /\ pc[c] = "returned"
    /\ pc' = [pc EXCEPT ![c] = "done"]
    /\ resp' = [resp EXCEPT ![c] = NoHtml]
    /\ result' = [result EXCEPT ![c] = NoResult]
    /\ reply' = Sent(Body(c, req))
    /\ arrays' = IF result[c].kind = "throw" THEN arrays
                 ELSE HeapAfter(req, arrays, result[c].data)
    /\ UNCHANGED <<earthquakeCache, now, forceRefresh, fetchCount, lastInstall, issued>>

Next ==
    \/ \E c \in Calls, force \in BOOLEAN : Start(c, force) /\ UNCHANGED issued
    \/ \E c \in Calls, r \in Responses : Complete(c, r)
    \/ \E c \in Calls, req \in Requests : Handle(c, req) /\ UNCHANGED answer
    \/ Tick

Spec == Init /\ [][Next]_vars

\* axios.get is called with timeout: REQUEST_TIMEOUT (lines 69-77), so every
\* request that is in flight settles, with a response or with a failure.
RequestsSettle == \A c \in Calls : WF_vars(\E r \in Responses : Complete(c, r))

SpecLive == Init /\ [][Next]_vars /\ RequestsSettle

----------------------------------------------------------------------------
(* The extraction alone: one call, suspended at axios.get against the empty *)
(* cache, receives any page of the bounds.                                  *)

InitExtract ==
    /\ earthquakeCache = NoCache
    /\ arrays = <<>>
    /\ now = 0
    /\ pc = [c \in Calls |-> IF c = 1 THEN "awaiting" ELSE "idle"]
    /\ forceRefresh = [c \in Calls |-> FALSE]
    /\ resp = [c \in Calls |-> NoHtml]
    /\ result = [c \in Calls |-> NoResult]
    /\ reply = NoReply
    /\ fetchCount = 1
    /\ lastInstall = NoInstall
    /\ answer = NoAnswer
    /\ issued = [c \in Calls |-> NoIssue]

NextExtract == \E r \in Pages(MaxRows, MaxTables) : Complete(1, r)

SpecExtract == InitExtract /\ [][NextExtract]_vars

----------------------------------------------------------------------------
(* The query functions alone: an array of Records is on the heap, and the   *)
(* functions are applied to it with arguments of the bounds.                *)

MaxRecords == 2

\* The Records the extraction builds from the rows that qualify.
RecordKinds == {MakeEarthquake(row) : row \in {RowA, RowB, RowC, RowText, RowSeven}}

RecordSeqs(minLen, maxLen) == UNION {[1..k -> RecordKinds] : k \in minLen..maxLen}

\* minMag: number, maxMag?: number (line 139), in tenths.
MinMags == {Number(0), Number(21), Number(45)}
MaxMags == {Undefined, Number(0), Number(45)}

InitQuery ==
    /\ earthquakeCache = NoCache
    /\ arrays \in {<<rs>> : rs \in RecordSeqs(0, MaxRecords)}
    /\ now = 0
    /\ pc = [c \in Calls |-> "idle"]
    /\ forceRefresh = [c \in Calls |-> FALSE]
    /\ resp = [c \in Calls |-> NoHtml]
    /\ result = [c \in Calls |-> NoResult]
    /\ reply = NoReply
    /\ fetchCount = 0
    /\ lastInstall = NoInstall
    /\ answer = NoAnswer
    /\ issued = [c \in Calls |-> NoIssue]

CallFilterByMagnitude(minMag, maxMag) ==
    /\ answer' = [op |-> "filterByMagnitude", minMag |-> minMag, maxMag |-> maxMag,
                  value |-> filterByMagnitude(arrays[1], minMag, maxMag)]
    /\ UNCHANGED <<earthquakeCache, arrays, now, pc, forceRefresh, resp, result,
                   reply, fetchCount, lastInstall, issued>>

CallTop(count) ==
    /\ answer' = [op |-> "top", count |-> count,
                  value |-> topEarthquakes(arrays, 1, count)]
    /\ arrays' = SortedCopy(arrays, 1).heap
    /\ UNCHANGED <<earthquakeCache, now, pc, forceRefresh, resp, result,
                   reply, fetchCount, lastInstall, issued>>

CallStats ==
    /\ answer' = [op |-> "stats", result |-> stats(arrays[1])]
    /\ UNCHANGED <<earthquakeCache, arrays, now, pc, forceRefresh, resp, result,
                   reply, fetchCount, lastInstall, issued>>

NextQuery ==
    \/ \E minMag \in MinMags, maxMag \in MaxMags : CallFilterByMagnitude(minMag, maxMag)
    \/ \E count \in {k \in 1..MaxCount : k > 0 /\ k <= MAX_TOP_COUNT} : CallTop(count)
    \/ CallStats

SpecQuery == InitQuery /\ [][NextQuery]_vars

----------------------------------------------------------------------------
(* The routes over a cached snapshot: a run has installed an array of      *)
(* Records, and requests with query parameters of the bounds are served    *)
(* from it within the TTL.                                                 *)

\* Query texts of min_magnitude and max_magnitude.
MagTexts == {Absent, Given(<<"0">>), Given(Mag45)}

\* Query texts of limit and offset of GET /earthquakes (README lines 73-74).
Limits == {Absent} \cup {Given(<<Digits[k + 1]>>) : k \in 1..MaxCount}
Offsets == {Absent} \cup {Given(<<Digits[j + 1]>>) : j \in 0..MaxCount}

Queries ==
    {[route |-> "filter", min_magnitude |-> a, max_magnitude |-> b, location |-> l] :
        a \in MagTexts, b \in MagTexts, l \in {Absent, Given(<<"B">>)}}
    \cup {[route |-> "list", limit |-> k, offset |-> j] : k \in Limits, j \in Offsets}

InitRoutes ==
    /\ arrays \in {<<rs>> : rs \in RecordSeqs(1, MaxRecords)}
    /\ earthquakeCache = CacheUpdate(NoCache, 1, 0)
    /\ lastInstall = [present |-> TRUE, data |-> 1, timestamp |-> 0, records |-> arrays[1],
                      issued |-> 0]
    /\ now = 0
    /\ pc = [c \in Calls |-> "idle"]
    /\ forceRefresh = [c \in Calls |-> FALSE]
    /\ resp = [c \in Calls |-> NoHtml]
    /\ result = [c \in Calls |-> NoResult]
    /\ reply = NoReply
    /\ fetchCount = 1
    /\ answer = NoAnswer
    /\ issued = [c \in Calls |-> NoIssue]

\* The handler sends its response, and the run keeps the body.
Serve(c, req) ==
    /\ Handle(c, req)
    /\ answer' = [op |-> "route", body |-> Body(c, req)]

NextRoutes ==
    \/ \E c \in Calls : Start(c, FALSE) /\ UNCHANGED issued
    \/ \E c \in Calls, req \in Queries : Serve(c, req)

SpecRoutes == InitRoutes /\ [][NextRoutes]_vars

----------------------------------------------------------------------------
(* The refreshes of a snapshot: a first request has installed a snapshot,  *)
(* and calls refresh it, forced or once it is past its TTL; the run keeps  *)
(* the order in which the requests were issued.                            *)

SnapshotOne == Extract(PageOne.tables).data

InitRefresh ==
    /\ arrays = <<SnapshotOne>>
    /\ earthquakeCache = CacheUpdate(NoCache, 1, 0)
    /\ lastInstall = [present |-> TRUE, data |-> 1, timestamp |-> 0, records |-> SnapshotOne,
                      issued |-> 1]
    /\ now = 0
    /\ pc = [c \in Calls |-> "idle"]
    /\ forceRefresh = [c \in Calls |-> FALSE]
    /\ resp = [c \in Calls |-> NoHtml]
    /\ result = [c \in Calls |-> NoResult]
    /\ reply = NoReply
    /\ fetchCount = 1
    /\ answer = NoAnswer
    /\ issued = [c \in Calls |-> NoIssue]

\* A call enters fetchEarthquakes; when it issues a request, the run keeps the
\* number of the request and how many requests had settled by then.
Issue(c, force) ==
    /\ Start(c, force)
    /\ issued' = [issued EXCEPT ![c] =
                     IF pc'[c] = "awaiting"
                     THEN [seq |-> fetchCount',
                           settled |-> fetchCount - Cardinality({d \in Calls : pc[d] = "awaiting"})]
                     ELSE NoIssue]

NextRefresh ==
    \/ \E c \in Calls, force \in BOOLEAN : Issue(c, force)
    \/ \E c \in Calls, r \in Responses : Complete(c, r)
    \/ \E c \in Calls : Handle(c, [route |-> "list"]) /\ UNCHANGED answer
    \/ Tick

SpecRefresh == InitRefresh /\ [][NextRefresh]_vars

----------------------------------------------------------------------------
(* Properties *)

InFlight == {c \in Calls : pc[c] = "awaiting"}

\* A row the extraction is to keep: six cells or more, and date, time,
\* magnitude and location non-empty once trimmed.
Qualifies(row) ==
    /\ Len(row) >= 6
    /\ LET eq == MakeEarthquake(row)
       IN  eq.date # <<>> /\ eq.time # <<>> /\ eq.magnitude # <<>> /\ eq.location # <<>>

RecordsOf(rows) ==
    LET kept == SelectSeq(rows, Qualifies)
    IN  [i \in 1..Len(kept) |-> MakeEarthquake(kept[i])]

\* One Record per qualifying row, table after table, row after row.
ExpectedRecords(tables) == Flatten([i \in 1..Len(tables) |-> RecordsOf(tables[i])])

NoMatchingTable(r) == r.kind = "html" /\ Len(r.tables) = 0

NoQualifyingRow(r) ==
    /\ r.kind = "html"
    /\ Len(r.tables) > 0
    /\ \A i \in 1..Len(r.tables) : \A j \in 1..Len(r.tables[i]) : ~Qualifies(r.tables[i][j])

\* The fetch or the extraction failed.
FailedRun(r) == r.kind = "network error" \/ NoMatchingTable(r) \/ NoQualifyingRow(r)

\* The error the failed run raised inside fetchEarthquakes.
RawError(r) ==
    IF r.kind = "network error" THEN TimeoutMessage
    ELSE IF NoMatchingTable(r) THEN TableNotFound ELSE NoValidData

\* Call c leaves fetchEarthquakes in this step, after its own fetch settled.
Settles(c) == pc[c] = "awaiting" /\ pc'[c] = "returned"

\* C1: at most one upstream fetch is in flight at any time.
C1_AtMostOneInFlight == Cardinality(InFlight) <= 1

\* C2: when all the calls were issued unforced against the Empty cache and are
\* in flight together, exactly one upstream fetch has been invoked.
C2_BurstSingleFetch ==
    (/\ ~earthquakeCache.present
     /\ \A c \in Calls : pc[c] = "awaiting" /\ ~forceRefresh[c])
    => fetchCount = 1

\* C3: an unforced call that starts while a snapshot exists and is younger than
\* the TTL returns the cached sequence and issues no upstream fetch.
C3_ValidServesCached ==
    [][\A c \in Calls :
         (/\ pc[c] = "idle"
          /\ pc'[c] # "idle"
          /\ ~forceRefresh'[c]
          /\ earthquakeCache.present
          /\ now - earthquakeCache.timestamp < CACHE_TTL_MS)
         => /\ pc'[c] = "returned"
            /\ result'[c] = Returned(earthquakeCache.data)
            /\ fetchCount' = fetchCount
            /\ earthquakeCache' = earthquakeCache]_vars

\* Two calls made one after the other within the TTL, one fetch in total: the
\* first is done, the second has returned without a fetch of its own.
C3_Witness ==
    /\ fetchCount = 1
    /\ \E c \in Calls :
         /\ pc[c] = "returned"
         /\ result[c].kind = "return"
         /\ resp[c].kind = "none"
         /\ \E d \in Calls \ {c} : pc[d] = "done"

\* C4: a call whose fetch or extraction fails while a snapshot exists returns
\* that snapshot's sequence, raises nothing and leaves the slot as it was.
C4_StaleOnError ==
    [][\A c \in Calls :
         (Settles(c) /\ FailedRun(resp'[c]) /\ earthquakeCache.present)
         => /\ result'[c] = Returned(earthquakeCache.data)
            /\ earthquakeCache' = earthquakeCache
            /\ arrays' = arrays]_vars

\* A failed refresh of a snapshot that is past its TTL was answered from it.
C4_Witness ==
    \E c \in Calls :
        /\ pc[c] = "returned"
        /\ FailedRun(resp[c])
        /\ result[c].kind = "return"
        /\ earthquakeCache.present
        /\ result[c].data = earthquakeCache.data
        /\ now - earthquakeCache.timestamp >= CACHE_TTL_MS

DataUnavailableError == "DataUnavailableError"

C6_NeverFailsAfterSuccess ==
    [][\A c \in Calls :
         (lastInstall.present /\ pc[c] \in {"idle", "awaiting"} /\ pc'[c] = "returned")
         => /\ result'[c].kind = "return"
            /\ result'[c].data \in 1..Len(arrays')]_vars

\* At time 0 two fetches were issued; one succeeded and installed the first
\* snapshot, the other call's own fetch failed afterwards, and that call
\* returned the snapshot's data all the same.
C6_Witness ==
    \E c \in Calls :
        /\ now = 0
        /\ fetchCount = 2
        /\ lastInstall.present
        /\ pc[c] = "returned"
        /\ FailedRun(resp[c])
        /\ result[c] = Returned(lastInstall.data)

\* C7: the slot is empty, or holds the data and the timestamp that the last
\* successful run installed together, the array being what that run built.
C7_SnapshotWhole ==
    IF earthquakeCache.present
    THEN /\ lastInstall.present
         /\ earthquakeCache.data = lastInstall.data
         /\ earthquakeCache.timestamp = lastInstall.timestamp
         /\ earthquakeCache.data \in 1..Len(arrays)
         /\ arrays[earthquakeCache.data] = lastInstall.records
    ELSE ~lastInstall.present

\* The snapshot was replaced by a later run: second array, later timestamp.
C7_Witness ==
    /\ earthquakeCache.present
    /\ earthquakeCache.data > 1
    /\ earthquakeCache.timestamp > 0

\* C8: a route handler's query changes neither the slot nor any array.
C8_QueriesLeaveSnapshot ==
    [][\A c \in Calls :
         (pc[c] = "returned" /\ pc'[c] = "done")
         => /\ earthquakeCache' = earthquakeCache
            /\ arrays' = arrays
            /\ lastInstall' = lastInstall]_vars

\* A top-N query was answered while the cached array is one that is not in
\* descending order of magnitude.
C8_Witness ==
    /\ reply.status = 200
    /\ reply.route = "top"
    /\ earthquakeCache.present
    /\ arrays[earthquakeCache.data] # SortDesc(arrays[earthquakeCache.data])

\* C9: for a page with a qualifying row, the extraction yields exactly one
\* Record per qualifying row of the matching tables, in document order; rows
\* with fewer than 6 cells or an empty required field yield nothing.
C9_OneRecordPerQualifyingRow ==
    (pc[1] = "returned" /\ resp[1].kind = "html" /\ ~FailedRun(resp[1]))
    => /\ result[1].kind = "return"
       /\ arrays[result[1].data] = ExpectedRecords(resp[1].tables)

\* A table of two rows of six cells, one of them without a time: one Record.
C9_Witness ==
    /\ pc[1] = "returned"
    /\ resp[1].kind = "html"
    /\ Len(resp[1].tables) = 1
    /\ Len(resp[1].tables[1]) = 2
    /\ \A j \in 1..2 : Len(resp[1].tables[1][j]) >= 6
    /\ result[1].kind = "return"
    /\ Len(arrays[result[1].data]) = 1

\* C10: a page without the table fails with 'table not found', one whose table
\* yields no valid record with 'no valid records'; neither installs anything,
\* and the slot, when it is not empty, holds at least one Record.
C10_NeverEmpty ==
    [][/\ \A c \in Calls :
            (Settles(c) /\ (NoMatchingTable(resp'[c]) \/ NoQualifyingRow(resp'[c])))
            => /\ arrays' = arrays
               /\ earthquakeCache' = earthquakeCache
               /\ result'[c].kind = "throw" => result'[c].error = RawError(resp'[c])
               /\ result'[c].kind = "return" => Len(arrays'[result'[c].data]) >= 1
       /\ earthquakeCache'.present => Len(arrays'[earthquakeCache'.data]) >= 1]_vars

\* A page whose table holds rows but no valid one made the call raise.
C10_Witness ==
    \E c \in Calls :
        /\ pc[c] = "returned"
        /\ NoQualifyingRow(resp[c])
        /\ result[c] = Thrown(NoValidData)

----------------------------------------------------------------------------
(* The query functions *)

\* The records of seq with magnitudeNumeric >= min and, when max is a number,
\* magnitudeNumeric <= max, in the order of seq.
WithinBounds(seq, min, max) ==
    LET Keep(eq) == /\ eq.magnitudeNumeric >= min.value
                    /\ (max.kind = "number" => eq.magnitudeNumeric <= max.value)
    IN  SelectSeq(seq, Keep)

\* C11: filterByMagnitude returns, in input order, exactly the records with
\* magnitudeNumeric >= min and, when max is given, magnitudeNumeric <= max,
\* max = 0 included; the upper bound is dropped only when max is absent.
C11_FilterByMagnitudeExact ==
    answer.op = "filterByMagnitude"
    => answer.value = WithinBounds(arrays[1], answer.minMag, answer.maxMag)

\* C12: a filter request that gives max_magnitude without min_magnitude
\* returns only records whose magnitudeNumeric is <= max_magnitude.
C12_MaxAppliesOnItsOwn ==
    (/\ answer.op = "route"
     /\ answer.body.status = 200
     /\ answer.body.request.route = "filter"
     /\ QueryNumber(answer.body.request.min_magnitude).kind = "undefined"
     /\ QueryNumber(answer.body.request.max_magnitude).kind = "number")
    => \A i \in 1..Len(answer.body.data) :
           answer.body.data[i].magnitudeNumeric
               <= QueryNumber(answer.body.request.max_magnitude).value

\* The positions of seq that the injection idx leaves out.
LeftOut(seq, idx) == {k \in 1..Len(seq) : \A i \in DOMAIN idx : idx[i] # k}

\* C13: the top n of an array, 1 <= n <= 50, has length min(n, len), is in
\* descending order of magnitudeNumeric, is a sub-multiset of the array, keeps
\* records of equal magnitudeNumeric in their input order, and holds no record
\* weaker than one it leaves out.
C13_TopByMagnitude ==
    answer.op = "top"
    => LET input == arrays[1]
           top == answer.value
       IN  /\ Len(top) = IF answer.count < Len(input) THEN answer.count ELSE Len(input)
           /\ \A i \in 1..(Len(top) - 1) :
                  top[i].magnitudeNumeric >= top[i + 1].magnitudeNumeric
           /\ \E idx \in [1..Len(top) -> 1..Len(input)] :
                  /\ \A i, j \in 1..Len(top) : idx[i] = idx[j] => i = j
                  /\ \A i \in 1..Len(top) : top[i] = input[idx[i]]
                  /\ \A i, j \in 1..Len(top) :
                         (i < j /\ top[i].magnitudeNumeric = top[j].magnitudeNumeric)
                         => idx[i] < idx[j]
                  /\ \A k \in LeftOut(input, idx) : \A i \in 1..Len(top) :
                         top[i].magnitudeNumeric >= input[k].magnitudeNumeric

\* The top 1 of two records, the second the stronger: it is the second.
C13_Witness ==
    /\ answer.op = "top"
    /\ answer.count = 1
    /\ Len(arrays[1]) = 2
    /\ arrays[1][1].magnitudeNumeric < arrays[1][2].magnitudeNumeric
    /\ answer.value = <<arrays[1][2]>>

EmptyDatasetError == "EmptyDatasetError"

C15_StatsOfNonEmpty ==
    (answer.op = "stats" /\ arrays[1] # <<>>)
    => LET input == arrays[1]
           st == answer.result.data
       IN  /\ answer.result.kind = "return"
           /\ st.total_count = Len(input)
           /\ st.most_recent = input[1]
           /\ \E i \in 1..Len(input) : input[i].magnitudeNumeric = st.magnitude.max
           /\ \A i \in 1..Len(input) : input[i].magnitudeNumeric <= st.magnitude.max
           /\ \E i \in 1..Len(input) : input[i].magnitudeNumeric = st.magnitude.min
           /\ \A i \in 1..Len(input) : input[i].magnitudeNumeric >= st.magnitude.min
           /\ \E i \in 1..Len(input) :
                  /\ st.strongest = input[i]
                  /\ input[i].magnitudeNumeric = st.magnitude.max
                  /\ \A j \in 1..(i - 1) :
                         input[j].magnitudeNumeric < input[i].magnitudeNumeric

\* The statistics of two different records of equal magnitude: the first is
\* the strongest.
C15_Witness ==
    /\ answer.op = "stats"
    /\ Len(arrays[1]) = 2
    /\ arrays[1][1] # arrays[1][2]
    /\ arrays[1][1].magnitudeNumeric = arrays[1][2].magnitudeNumeric
    /\ answer.result.kind = "return"
    /\ answer.result.data.strongest = arrays[1][1]

\* The number a limit or offset text asks for.
Asked(param) == DecimalValue(param.text, 0)

\* C16: GET /earthquakes with limit = k returns at most k records, never more
\* than 100, and with offset = j its records are those of the snapshot from
\* position j on, in the snapshot's order.
C16_Pagination ==
    (/\ answer.op = "route"
     /\ answer.body.status = 200
     /\ answer.body.request.route = "list")
    => LET req == answer.body.request
           data == answer.body.data
           snapshot == arrays[earthquakeCache.data]
           j == IF req.offset.given THEN Asked(req.offset) ELSE 0
       IN  /\ req.limit.given => Len(data) <= Asked(req.limit)
           /\ Len(data) <= 100
           /\ \A i \in 1..Len(data) :
                  j + i <= Len(snapshot) /\ data[i] = snapshot[j + i]

----------------------------------------------------------------------------
(* The table the extraction reads *)

\* C18: the Records of a page come from the rows of the first matching table
\* only; the rows of later matching tables contribute none.
C18_FirstTableOnly ==
    (pc[1] = "returned" /\ resp[1].kind = "html" /\ result[1].kind = "return")
    => arrays[result[1].data] = RecordsOf(resp[1].tables[1])

----------------------------------------------------------------------------
(* Progress and the order of refreshes *)

\* C17: every call of fetchEarthquakes that is suspended at its request leaves
\* the function, with a return or a throw, whatever the other calls do.
C17_CallsComplete ==
    \A c \in Calls : (pc[c] = "awaiting") ~> (pc[c] = "returned")

\* A call whose request failed has raised while another call's request is
\* still in flight.
C17_Witness ==
    \E c, d \in Calls :
        /\ pc[c] = "returned"
        /\ resp[c].kind = "network error"
        /\ result[c].kind = "throw"
        /\ pc[d] = "awaiting"

\* C19: a call issues one request at most, when it enters the function and
\* never when its request settles; a refresh that fails while a snapshot
\* exists leaves the entry and its timestamp as they were, so a snapshot past
\* its TTL stays past it; and an unforced call that starts on a snapshot past
\* its TTL issues a request.
C19_FailedRefreshStaysStale ==
    [][/\ fetchCount' # fetchCount
          => /\ fetchCount' = fetchCount + 1
             /\ \E c \in Calls : pc[c] = "idle" /\ pc'[c] = "awaiting"
       /\ \A c \in Calls :
            /\ pc[c] # "idle" => pc'[c] \notin {"idle"} /\ (pc'[c] = "awaiting" => pc[c] = "awaiting")
            /\ (Settles(c) /\ FailedRun(resp'[c]) /\ earthquakeCache.present)
               => /\ earthquakeCache' = earthquakeCache
                  /\ ~isCacheValid(earthquakeCache, now) => ~isCacheValid(earthquakeCache', now')
            /\ (/\ pc[c] = "idle"
                /\ pc'[c] # "idle"
                /\ earthquakeCache.present
                /\ now - earthquakeCache.timestamp >= CACHE_TTL_MS)
               => pc'[c] = "awaiting" /\ fetchCount' = fetchCount + 1]_vars

\* The refresh of call c failed on the snapshot of time 0, past its TTL, and was
\* answered from it; call d, unforced, started after that and is in flight
\* with the third request, the snapshot still being the one of time 0.
C19_Witness ==
    \E c, d \in Calls :
        /\ pc[c] = "returned"
        /\ FailedRun(resp[c])
        /\ result[c] = Returned(earthquakeCache.data)
        /\ earthquakeCache.timestamp = 0
        /\ now >= CACHE_TTL_MS
        /\ pc[d] = "awaiting"
        /\ ~forceRefresh[d]
        /\ issued[d] = [seq |-> 3, settled |-> 2]

\* C20: the timestamp of the snapshot never decreases, and a run installs its
\* result only if its request was issued after the request whose result is
\* installed.
C20_NoLateOverwrite ==
    [][/\ (earthquakeCache.present /\ earthquakeCache'.present)
          => earthquakeCache'.timestamp >= earthquakeCache.timestamp
       /\ \A c \in Calls :
            (Settles(c) /\ earthquakeCache' # earthquakeCache /\ lastInstall.present)
            => issued[c].seq > lastInstall.issued]_vars

====
